---- MODULE Spec2Model ----
(***************************************************************************)
(* State-machine model of the DWSIM screening scripts.                     *)
(*                                                                         *)
(*   run_screening.py : module setup, SimulationManager, run_pfr_study,    *)
(*                      run_distillation_study, __main__                   *)
(*   debug_pfr.py     : module setup and run_debug (DebugSpec)             *)
(*                                                                         *)
(* The external engine (DWSIM, reached through pythonnet) is the           *)
(* environment.  Every engine call either returns its nominal value or     *)
(* fails (raises, or returns null where the code tests for it).  The       *)
(* failing calls are bounded: the engine misbehaves during one case of a   *)
(* run, any of them, and at most MaxFaults of that case's calls fail.      *)
(* The properties a reactor exposes through reflection belong to the .NET  *)
(* type, so they are fixed for a run and drawn in Init.                    *)
(*                                                                         *)
(* Numbers: Python floats are modelled by integers.  Reflux ratios are in  *)
(* tenths (1.5 -> 15), Conversion is in percent (0.6 -> 60).               *)
(***************************************************************************)
EXTENDS Integers, Sequences, FiniteSets, TLC

VARIABLES
    pc,          \* position of the script
    study,       \* "PFR" (run_pfr_study) or "DIST" (run_distillation_study)
    i, j,        \* positions of the outer and the inner for-loop (1-based)
    sim,         \* manager.sim: id of the current flowsheet, 0 = None
    ctxCount,    \* number of flowsheets the engine has created
    results,     \* manager.results: sequence of rows, a row = sequence of <<key, value>>
    compounds,   \* compounds present in the current flowsheet, in order of addition
    compTried,   \* AddCompound calls made in the current case, in order
    rxn,         \* the reaction object of the case ("none" / "rxn")
    rs,          \* the reaction set of the case ("unset" / "none" / "existing" / "created")
    rxn_sets,    \* the local rxn_sets: display names of the sets sim.ReactionSets
                 \* lists, in listing order ("" for an entry that is null); the
                 \* set the case uses is the first one
    valid_index, \* run_debug's local valid_index: the 0-based index it writes to
                 \* the reactor, -1 before the lookup and when no name matches
    rxnInSet,    \* TRUE once AddReactionToSet has succeeded in this case
    pfr,         \* TRUE once the reactor (or the column) object of the case exists
    wired,       \* TRUE once the three ConnectObjects calls of add_pfr returned
    attempts,    \* property names the binding step probed or wrote, in order
    boundBy,     \* "pending" before the binding step; then the property whose write
                 \* took effect, "" when none did
    cfgTried,    \* unit properties whose write was attempted in this case
    cfgDone,     \* unit properties whose write took effect in this case
    solved,      \* "no" / "returned" / "raised": what the solve call of the case did
    success,     \* local success of the case (FALSE until run_simulation returns)
    errors,      \* local errors of the case: the solver's error list
    metrics,     \* local metric variables read so far: sequence of <<name, value>>
    readFailed,  \* names of the metric reads that failed in this case
    exc,         \* the exception caught by the case's except clause, NoExc if none
    caseFaults,  \* engine calls that failed in the current case
    faultyCases, \* cases of the run in which some engine call failed
    typeProps,   \* property names the reactor's .NET type exposes
    simCase,     \* number of the case whose create_simulation call set manager.sim,
                 \* 0 while manager.sim is None
    handles,     \* the locals feed, prod, energy, unit (pfr or dist) and rs of the
                 \* running study function: the id of the flowsheet the object of
                 \* each belongs to, 0 when the local is unbound or None
    written,     \* the tables written to results.csv, in the order of the writes
    won          \* history: the binding strategies whose write has taken effect on
                 \* a reactor of this type so far

vars == <<pc, study, i, j, sim, ctxCount, results, compounds, compTried, rxn, rs, rxn_sets, valid_index,
          rxnInSet, pfr, wired, attempts, boundBy, cfgTried, cfgDone, solved,
          success, errors, metrics, readFailed, exc, caseFaults, faultyCases, typeProps, simCase, handles, written, won>>

\* the per-case variables, reset when a case begins
caseVars == <<compounds, compTried, rxn, rs, rxn_sets, valid_index, rxnInSet, pfr, wired, attempts, boundBy,
              cfgTried, cfgDone, solved, success, errors, metrics, readFailed, exc>>

loopVars == <<study, i, j>>

(***************************************************************************)
(* Bounds of the environment                                               *)
(***************************************************************************)
MaxFaults == 3

\* largest component flow the engine reports in the study of the conversion
MaxFlow == 100

\* largest number of reaction sets a new flowsheet lists
MaxSets == 2

\* display names of the reaction sets a flowsheet lists
SetNames == {"Default Set", "DebugSet"}

(***************************************************************************)
(* Program constants                                                       *)
(***************************************************************************)
temperatures == <<300, 325, 350>>

volumes == <<1, 2, 3>>

reflux_ratios == <<15, 20, 30>>

stages_list == <<10, 15, 20>>

pfr_compounds == <<"Water", "Ethanol">>

dist_compounds == <<"Ethanol", "Water">>

\* the five property writes of the distillation column, in program order
dist_props == <<"Reflux Ratio", "Number of Stages", "Condenser Pressure",
                "Reboiler Pressure", "Light Key Mole Fraction">>

NoExc == [call |-> "", msg |-> ""]

\* the object locals of a study function before any of them is assigned
NoHandles == [feed |-> 0, prod |-> 0, energy |-> 0, unit |-> 0, rs |-> 0]

\* the exception an engine call raises; every engine exception carries a message
EngineError(call) == [call |-> call, msg |-> "engine error"]

\* str(e)
StrExc(e) == e.msg

\* StrErrors with the text of the error list lost
StrErrors_blank(errs) == ""

\* str(errors) of the solver's error list
StrErrors(errs) == IF Len(errs) = 0 THEN "[]" ELSE "[solver error]"

\* what the engine returns for a property read that does not fail
EngineRead(obj, prop) ==
    CASE obj = "feed" /\ prop = "Water"            -> 100
      [] obj = "prod" /\ prop = "Water"            -> 40
      [] obj = "prod" /\ prop = "Ethanol"          -> 60
      [] obj = "prod" /\ prop = "Temperature"      -> temperatures[i]
      [] obj = "energy" /\ prop = "Energy Flow"    -> 5
      [] obj = "dist" /\ prop = "Condenser Duty"   -> 7
      [] obj = "dist" /\ prop = "Reboiler Duty"    -> 9

\* reflection property sets of the reactor type considered
TypeFamilies ==
    { {"Volume", "ReactorOperationMode", "ReactionSetID"},
      {"Volume", "ReactorOperationMode", "ReactionSet", "ReactionSetID"},
      {"Volume", "ReactorOperationMode", "Reaction Set"},
      {} }

(***************************************************************************)
(* Rows: Python dicts keep insertion order                                  *)
(***************************************************************************)
HasKey(row, k) == \E n \in 1..Len(row) : row[n][1] = k

Get(row, k) == row[CHOOSE n \in 1..Len(row) : row[n][1] = k][2]

Keys(row) == [n \in 1..Len(row) |-> row[n][1]]

\* value of a local metric variable
Metric(k) == Get(metrics, k)

(***************************************************************************)
(* Fault budget of the environment                                         *)
(***************************************************************************)
CanFault ==
    /\ caseFaults < MaxFaults
    /\ (caseFaults > 0 \/ faultyCases = 0)

Fault ==
    /\ CanFault
    /\ caseFaults' = caseFaults + 1
    /\ faultyCases' = IF caseFaults = 0 THEN faultyCases + 1 ELSE faultyCases

NoFault == UNCHANGED <<caseFaults, faultyCases>>

\* an engine call inside the try block raises: control goes to the except clause
Raise(call) ==
    /\ Fault
    /\ exc' = EngineError(call)
    /\ pc' = "except"

(***************************************************************************)
(* Initial state: the interpreter starts executing run_screening.py        *)
(***************************************************************************)
Init ==
    /\ pc = "locate"
    /\ study = "PFR" /\ i = 1 /\ j = 1
    /\ sim = 0 /\ ctxCount = 0
    /\ results = <<>>
    /\ compounds = <<>> /\ compTried = <<>>
    /\ rxn = "none" /\ rs = "unset" /\ rxnInSet = FALSE
    /\ rxn_sets = <<>> /\ valid_index = -1
    /\ pfr = FALSE /\ wired = FALSE
    /\ attempts = <<>> /\ boundBy = "pending"
    /\ cfgTried = {} /\ cfgDone = {}
    /\ solved = "no" /\ success = FALSE /\ errors = <<>>
    /\ metrics = <<>> /\ readFailed = {}
    /\ exc = NoExc
    /\ caseFaults = 0 /\ faultyCases = 0
    /\ typeProps \in TypeFamilies
    /\ simCase = 0
    /\ handles = NoHandles
    /\ written = <<>>
    /\ won = {}

(***************************************************************************)
(* Module setup and __main__                                               *)
(***************************************************************************)
\* lines 22-45: look for DWSIM.Automation.dll, else ask the user, else exit(1)
locate_dwsim ==
    /\ pc = "locate"
    /\ pc' \in {"load", "exit1"}
    /\ UNCHANGED <<loopVars, sim, ctxCount, results, caseVars, caseFaults,
                   faultyCases, typeProps, simCase, handles, written, won>>

\* lines 57-75: clr.AddReference and the imports, exit(1) on any exception
load_assemblies ==
    /\ pc = "load"
    /\ pc' \in {"main", "exit1"}
    /\ UNCHANGED <<loopVars, sim, ctxCount, results, caseVars, caseFaults,
                   faultyCases, typeProps, simCase, handles, written, won>>

\* main_start reached also after the setup has given up: sys.exit(1) left out
main_start_after_exit ==
    /\ pc \in {"main", "exit1"}
    /\ pc' \in {"create", "crashed"}
    /\ sim' = 0
    /\ results' = <<>>
    /\ UNCHANGED <<loopVars, ctxCount, caseVars, caseFaults, faultyCases, typeProps,
                   simCase, handles, written, won>>

\* lines 446-449 with SimulationManager.__init__: Automation3() is not guarded
main_start ==
    /\ pc = "main"
    /\ pc' \in {"create", "crashed"}
    /\ sim' = 0
    /\ results' = <<>>
    /\ UNCHANGED <<loopVars, ctxCount, caseVars, caseFaults, faultyCases, typeProps, simCase, handles, written, won>>

(***************************************************************************)
(* The two nested for-loops of a study, and the sequence of the studies    *)
(***************************************************************************)
\* the loop-variable values of the current iteration
outer_axis == IF study = "PFR" THEN temperatures ELSE reflux_ratios

inner_axis == IF study = "PFR" THEN volumes ELSE stages_list

\* next_iteration with the two loops exchanged: the outer axis is the fast one
next_iteration_outer_fast ==
    IF i < Len(outer_axis)
    THEN /\ i' = i + 1 /\ j' = j /\ study' = study /\ pc' = "create"
    ELSE IF j < Len(inner_axis)
    THEN /\ i' = 1 /\ j' = j + 1 /\ study' = study /\ pc' = "create"
    ELSE IF study = "PFR"
    THEN /\ j' = 1 /\ i' = 1 /\ study' = "DIST" /\ pc' = "create"
    ELSE /\ j' = j /\ i' = i /\ study' = study /\ pc' = "export"

\* for outer in ...: for inner in ...: the inner loop is the fast one
next_iteration ==
    IF j < Len(inner_axis)
    THEN /\ j' = j + 1 /\ i' = i /\ study' = study /\ pc' = "create"
    ELSE IF i < Len(outer_axis)
    THEN /\ j' = 1 /\ i' = i + 1 /\ study' = study /\ pc' = "create"
    ELSE IF study = "PFR"
    THEN /\ j' = 1 /\ i' = 1 /\ study' = "DIST" /\ pc' = "create"
    ELSE /\ j' = j /\ i' = i /\ study' = study /\ pc' = "export"

\* number of iterations finished so far
casesDone ==
    (IF study = "DIST" THEN Len(temperatures) * Len(volumes) ELSE 0)
    + (i - 1) * Len(inner_axis) + (j - 1)
    + (IF pc \in {"export", "done"} THEN 1 ELSE 0)

(***************************************************************************)
(* SimulationManager                                                       *)
(***************************************************************************)
\* an assignment to an object local of the study function: it takes place when
\* the call on its right-hand side returns, not when it raises
Assign(local, ctx) ==
    IF pc' = "except" THEN handles ELSE [handles EXCEPT ![local] = ctx]

\* run_pfr_study returns after its last iteration and run_distillation_study
\* starts with locals of its own
leave_function == IF study' = study THEN handles ELSE NoHandles

\* log_result that puts the new row in front of the list
log_result_in_front(case_type, logs) ==
    results' = <<logs \o << <<"CaseType", case_type>>, <<"Timestamp", "hh:mm:ss">> >> >>
               \o results

\* log_result, lines 153-157: tag the dict and append it
log_result(case_type, logs) ==
    results' = Append(results,
                      logs \o << <<"CaseType", case_type>>, <<"Timestamp", "hh:mm:ss">> >>)

\* the per-case bookkeeping of the model starts afresh with each iteration
ResetCase ==
    /\ compTried' = <<>>
    /\ rxn' = "none" /\ rs' = "unset" /\ rxnInSet' = FALSE
    /\ rxn_sets' = <<>> /\ valid_index' = -1
    /\ pfr' = FALSE /\ wired' = FALSE
    /\ attempts' = <<>> /\ boundBy' = "pending"
    /\ cfgTried' = {} /\ cfgDone' = {}
    /\ solved' = "no" /\ success' = FALSE /\ errors' = <<>>
    /\ metrics' = <<>> /\ readFailed' = {}

\* create_simulation that keeps the flowsheet of the previous case when there is one
create_simulation_once ==
    /\ pc = "create"
    /\ ResetCase
    /\ \/ /\ ctxCount' = IF sim = 0 THEN ctxCount + 1 ELSE ctxCount
          /\ sim' = IF sim = 0 THEN ctxCount + 1 ELSE sim
          /\ simCase' = IF sim = 0 THEN casesDone + 1 ELSE simCase
          /\ compounds' = <<>>
          /\ exc' = NoExc
          /\ caseFaults' = 0
          /\ faultyCases' = faultyCases
          /\ pc' = "compounds"
       \/ /\ faultyCases = 0
          /\ caseFaults' = 1
          /\ faultyCases' = faultyCases + 1
          /\ exc' = EngineError("CreateFlowsheet")
          /\ pc' = "except"
          /\ UNCHANGED <<sim, simCase, ctxCount, compounds>>
    /\ UNCHANGED <<loopVars, results, typeProps, handles, written, won>>

\* create_simulation with the exception of CreateFlowsheet swallowed: the case goes
\* on with whatever manager.sim holds
create_simulation_swallows ==
    /\ pc = "create"
    /\ ResetCase
    /\ \/ /\ ctxCount' = ctxCount + 1
          /\ sim' = ctxCount + 1
          /\ simCase' = casesDone + 1
          /\ compounds' = <<>>
          /\ exc' = NoExc
          /\ caseFaults' = 0
          /\ faultyCases' = faultyCases
          /\ pc' = "compounds"
       \/ /\ faultyCases = 0
          /\ caseFaults' = 1
          /\ faultyCases' = faultyCases + 1
          /\ exc' = NoExc
          /\ pc' = "compounds"
          /\ UNCHANGED <<sim, simCase, ctxCount, compounds>>
    /\ UNCHANGED <<loopVars, results, typeProps, handles, written, won>>

\* create_simulation, lines 87-95, called at 177 and 384
create_simulation ==
    /\ pc = "create"
    /\ ResetCase
    /\ \/ /\ ctxCount' = ctxCount + 1
          /\ sim' = ctxCount + 1
          /\ simCase' = casesDone + 1
          /\ compounds' = <<>>
          /\ exc' = NoExc
          /\ caseFaults' = 0
          /\ faultyCases' = faultyCases
          /\ pc' = "compounds"
       \/ /\ faultyCases = 0
          /\ caseFaults' = 1
          /\ faultyCases' = faultyCases + 1
          /\ exc' = EngineError("CreateFlowsheet")
          /\ pc' = "except"
          /\ UNCHANGED <<sim, simCase, ctxCount, compounds>>
    /\ UNCHANGED <<loopVars, results, typeProps, handles, written, won>>

study_compounds == IF study = "PFR" THEN pfr_compounds ELSE dist_compounds

\* compound_except re-raising instead of swallowing
compound_except_raises ==
    /\ exc' = EngineError("AddCompound")
    /\ pc' = "except"

\* lines 102-103: the bare except of setup_compounds prints a warning and the
\* for-loop goes on
compound_except ==
    /\ exc' = exc
    /\ pc' = IF Len(compTried) + 1 < Len(study_compounds) THEN "compounds" ELSE "feed"

\* setup_compounds, lines 97-103: one iteration of its for-loop
setup_compounds ==
    /\ pc = "compounds"
    /\ LET comp == study_compounds[Len(compTried) + 1] IN
       /\ compTried' = Append(compTried, comp)
       /\ \/ /\ NoFault
             /\ compounds' = Append(compounds, comp)
             /\ exc' = exc
             /\ pc' = IF Len(compTried) + 1 < Len(study_compounds)
                      THEN "compounds" ELSE "feed"
          \/ /\ Fault
             /\ compounds' = compounds
             /\ compound_except
    /\ UNCHANGED <<loopVars, sim, ctxCount, results, rxn, rs, rxn_sets, valid_index, rxnInSet, pfr, wired,
                   attempts, boundBy, cfgTried, cfgDone, solved, success, errors,
                   metrics, readFailed, typeProps, simCase, handles, written, won>>

\* add_material_stream, lines 105-116, called at 190 and 388: AddObject and four
\* SetPropertyValue calls, none of them guarded
add_material_stream ==
    /\ pc = "feed"
    /\ \/ /\ NoFault
          /\ exc' = exc
          /\ pc' = IF study = "PFR" THEN "prod" ELSE "column"
       \/ Raise("add_material_stream")
    /\ handles' = Assign("feed", sim)
    /\ UNCHANGED <<loopVars, sim, ctxCount, results, compounds, compTried, rxn, rs, rxn_sets, valid_index,
                   rxnInSet, pfr, wired, attempts, boundBy, cfgTried, cfgDone,
                   solved, success, errors, metrics, readFailed, typeProps, simCase,
                   written, won>>

\* run_simulation, lines 146-151, called at 296 and 403
run_simulation ==
    /\ pc = "solve"
    /\ \/ /\ NoFault                      \* err_list is None, or an empty list
          /\ solved' = "returned" /\ success' = TRUE /\ errors' = <<>>
          /\ exc' = exc
          /\ pc' = IF study = "PFR" THEN "import" ELSE "cond"
       \/ /\ Fault                        \* a non-empty error list
          /\ solved' = "returned" /\ success' = FALSE /\ errors' = <<"solver error">>
          /\ exc' = exc
          /\ pc' = IF study = "PFR" THEN "import" ELSE "cond"
       \/ /\ Raise("CalculateFlowsheet2")
          /\ solved' = "raised" /\ success' = success /\ errors' = errors
    /\ UNCHANGED <<loopVars, sim, ctxCount, results, compounds, compTried, rxn, rs, rxn_sets, valid_index,
                   rxnInSet, pfr, wired, attempts, boundBy, cfgTried, cfgDone,
                   metrics, readFailed, typeProps, simCase, handles, written, won>>

(***************************************************************************)
(* run_pfr_study: one iteration of its loop body, lines 175-368            *)
(***************************************************************************)
\* an unguarded engine call of the try block that only has to return
PlainCall(at, next, call) ==
    /\ pc = at
    /\ \/ /\ NoFault /\ exc' = exc /\ pc' = next
       \/ Raise(call)

\* line 191: the product stream
add_product_stream ==
    /\ PlainCall("prod", "energy", "AddObject(Product)")
    /\ handles' = Assign("prod", sim)
    /\ UNCHANGED <<loopVars, sim, ctxCount, results, compounds, compTried, rxn, rs, rxn_sets, valid_index,
                   rxnInSet, pfr, wired, attempts, boundBy, cfgTried, cfgDone,
                   solved, success, errors, metrics, readFailed, typeProps, simCase,
                   written, won>>

\* line 192: the energy stream
add_energy_stream ==
    /\ PlainCall("energy", "rxn", "AddObject(Heat)")
    /\ handles' = Assign("energy", sim)
    /\ UNCHANGED <<loopVars, sim, ctxCount, results, compounds, compTried, rxn, rs, rxn_sets, valid_index,
                   rxnInSet, pfr, wired, attempts, boundBy, cfgTried, cfgDone,
                   solved, success, errors, metrics, readFailed, typeProps, simCase,
                   written, won>>

\* lines 196-228: CreateKineticReaction returns the reaction, returns null, or raises
create_reaction ==
    /\ pc = "rxn"
    /\ \/ /\ NoFault /\ rxn' = "rxn" /\ exc' = exc /\ pc' = "rxn_sets"
       \/ /\ Fault /\ rxn' = "none" /\ exc' = exc /\ pc' = "rxn_sets"
       \/ /\ Raise("CreateKineticReaction") /\ rxn' = rxn
    /\ UNCHANGED <<loopVars, sim, ctxCount, results, compounds, compTried, rs, rxn_sets, valid_index,
                   rxnInSet, pfr, wired, attempts, boundBy, cfgTried, cfgDone,
                   solved, success, errors, metrics, readFailed, typeProps, simCase, handles, written, won>>

\* lines 231-239 and 246: read sim.ReactionSets; take the first set when there is
\* one, go on to create a set when there is none.  run_pfr_study uses the first
\* set of the listing only, and the first set is all that is kept of the listing
get_reaction_sets ==
    /\ pc = "rxn_sets"
    /\ \/ /\ NoFault /\ rxn_sets' = <<"Default Set">> /\ rs' = "existing"
          /\ exc' = exc /\ pc' = "add_rxn"
       \/ /\ NoFault /\ rxn_sets' = <<>> /\ rs' = rs
          /\ exc' = exc /\ pc' = "create_set"
       \/ /\ Fault /\ rxn_sets' = <<"">> /\ rs' = "none"
          /\ exc' = exc /\ pc' = "add_rxn"
       \/ /\ Raise("ReactionSets") /\ rxn_sets' = rxn_sets /\ rs' = rs
    /\ valid_index' = valid_index
    /\ handles' = IF pc' = "create_set" THEN handles
                  ELSE Assign("rs", IF rs' = "none" THEN 0 ELSE sim)
    /\ UNCHANGED <<loopVars, sim, ctxCount, results, compounds, compTried, rxn,
                   rxnInSet, pfr, wired, attempts, boundBy, cfgTried, cfgDone,
                   solved, success, errors, metrics, readFailed, typeProps, simCase,
                   written, won>>

\* line 248: CreateReactionSet returns the new set, returns null, or raises
create_reaction_set ==
    /\ pc = "create_set"
    /\ \/ /\ NoFault /\ rxn_sets' = Append(rxn_sets, "Set-1") /\ rs' = "created"
          /\ exc' = exc /\ pc' = "add_rxn"
       \/ /\ Fault /\ rxn_sets' = rxn_sets /\ rs' = "none"
          /\ exc' = exc /\ pc' = "add_rxn"
       \/ /\ Raise("CreateReactionSet") /\ rxn_sets' = rxn_sets /\ rs' = rs
    /\ valid_index' = valid_index
    /\ handles' = Assign("rs", IF rs' = "none" THEN 0 ELSE sim)
    /\ UNCHANGED <<loopVars, sim, ctxCount, results, compounds, compTried, rxn,
                   rxnInSet, pfr, wired, attempts, boundBy, cfgTried, cfgDone,
                   solved, success, errors, metrics, readFailed, typeProps, simCase,
                   written, won>>

\* lines 241-245 and 249-250: AddReactionToSet when both objects are there
add_reaction_to_set ==
    /\ pc = "add_rxn"
    /\ IF rs # "none" /\ rxn # "none"
       THEN \/ /\ NoFault /\ rxnInSet' = TRUE /\ exc' = exc /\ pc' = "add_pfr"
            \/ /\ Raise("AddReactionToSet") /\ rxnInSet' = rxnInSet
       ELSE /\ NoFault /\ rxnInSet' = rxnInSet /\ exc' = exc /\ pc' = "add_pfr"
    /\ UNCHANGED <<loopVars, sim, ctxCount, results, compounds, compTried, rxn, rs, rxn_sets, valid_index,
                   pfr, wired, attempts, boundBy, cfgTried, cfgDone,
                   solved, success, errors, metrics, readFailed, typeProps, simCase, handles, written, won>>

\* add_pfr, lines 118-128, called at 258: AddObject, then three ConnectObjects
add_pfr ==
    /\ pc = "add_pfr"
    /\ \/ /\ NoFault /\ pfr' = TRUE /\ wired' = TRUE /\ exc' = exc /\ pc' = "get_type"
       \/ /\ Raise("AddObject(PFR-1)") /\ pfr' = FALSE /\ wired' = FALSE
       \/ /\ Raise("ConnectObjects") /\ pfr' = TRUE /\ wired' = FALSE
    /\ handles' = Assign("unit", sim)
    /\ UNCHANGED <<loopVars, sim, ctxCount, results, compounds, compTried, rxn, rs, rxn_sets, valid_index,
                   rxnInSet, attempts, boundBy, cfgTried, cfgDone,
                   solved, success, errors, metrics, readFailed, typeProps, simCase,
                   written, won>>

\* line 261: pfr.GetType(), outside every inner try
get_type ==
    /\ PlainCall("get_type", "bind", "GetType")
    /\ UNCHANGED <<loopVars, sim, ctxCount, results, compounds, compTried, rxn, rs, rxn_sets, valid_index,
                   rxnInSet, pfr, wired, attempts, boundBy, cfgTried, cfgDone,
                   solved, success, errors, metrics, readFailed, typeProps, simCase, handles, written, won>>

\* lines 266-273: the strategies of the binding chain, in the order the code
\* reaches them: the reflection property "ReactionSetID", and only when the type
\* has no such property, SetPropertyValue("Reaction Set", rs.ID)
binding_chain ==
    IF "ReactionSetID" \in typeProps
    THEN <<"ReactionSetID">>
    ELSE <<"ReactionSetID", "Reaction Set">>

\* lines 274-275: a raising probe or write is printed and swallowed
bind_except ==
    /\ exc' = exc
    /\ pc' = "cfg_vol"

\* lines 262-275: assign the reaction set to the reactor
bind_reaction_set ==
    /\ pc = "bind"
    /\ IF rs = "none"
       THEN /\ NoFault /\ attempts' = attempts /\ boundBy' = ""
            /\ exc' = exc /\ pc' = "cfg_vol"
       ELSE \/ /\ Fault                         \* GetProperty raises
               /\ attempts' = <<"ReactionSetID">> /\ boundBy' = ""
               /\ bind_except
            \/ /\ attempts' = binding_chain
               /\ LET name == binding_chain[Len(binding_chain)] IN
                  \/ /\ name \in typeProps       \* the write returns
                     /\ NoFault /\ boundBy' = name
                     /\ exc' = exc /\ pc' = "cfg_vol"
                  \/ /\ name \in typeProps       \* the write raises
                     /\ Fault /\ boundBy' = ""
                     /\ bind_except
                  \/ /\ name \notin typeProps    \* the engine knows no such property
                     /\ NoFault /\ boundBy' = ""
                     /\ bind_except
    /\ won' = IF boundBy' = "" THEN won ELSE won \cup {boundBy'}
    /\ UNCHANGED <<loopVars, sim, ctxCount, results, compounds, compTried, rxn, rs, rxn_sets, valid_index,
                   rxnInSet, pfr, wired, cfgTried, cfgDone,
                   solved, success, errors, metrics, readFailed, typeProps, simCase,
                   handles, written>>

\* lines 292-293: the except clause of the configuration block; control leaves the
\* whole try block, so the writes after the failing one are not reached
config_except ==
    /\ exc' = exc
    /\ pc' = "solve"

\* one probe-and-write of the configuration block
ConfigWrite(at, next, prop) ==
    /\ pc = at
    /\ IF prop \in typeProps
       THEN /\ cfgTried' = cfgTried \cup {prop}
            /\ \/ /\ NoFault /\ cfgDone' = cfgDone \cup {prop}
                  /\ exc' = exc /\ pc' = next
               \/ /\ Fault /\ cfgDone' = cfgDone
                  /\ config_except
       ELSE /\ NoFault /\ cfgTried' = cfgTried /\ cfgDone' = cfgDone
            /\ exc' = exc /\ pc' = next

\* lines 280-282: Volume
set_volume ==
    /\ ConfigWrite("cfg_vol", "cfg_mode", "Volume")
    /\ UNCHANGED <<loopVars, sim, ctxCount, results, compounds, compTried, rxn, rs, rxn_sets, valid_index,
                   rxnInSet, pfr, wired, attempts, boundBy,
                   solved, success, errors, metrics, readFailed, typeProps, simCase, handles, written, won>>

\* lines 286-288: ReactorOperationMode
set_operation_mode ==
    /\ ConfigWrite("cfg_mode", "solve", "ReactorOperationMode")
    /\ UNCHANGED <<loopVars, sim, ctxCount, results, compounds, compTried, rxn, rs, rxn_sets, valid_index,
                   rxnInSet, pfr, wired, attempts, boundBy,
                   solved, success, errors, metrics, readFailed, typeProps, simCase, handles, written, won>>

\* line 305: from DWSIM.Interfaces import IMaterialStream, inside the try block
import_interface ==
    /\ PlainCall("import", "in_flow", "import IMaterialStream")
    /\ UNCHANGED <<loopVars, sim, ctxCount, results, compounds, compTried, rxn, rs, rxn_sets, valid_index,
                   rxnInSet, pfr, wired, attempts, boundBy, cfgTried, cfgDone,
                   solved, success, errors, metrics, readFailed, typeProps, simCase, handles, written, won>>

\* conversion with the outlet flow in the numerator
conversion_of_outlet(in_flow, out_flow_A) ==
    IF in_flow > 0 THEN (out_flow_A * 100) \div in_flow ELSE 0

\* line 343, in percent
conversion(in_flow, out_flow_A) ==
    IF in_flow > 0 THEN ((in_flow - out_flow_A) * 100) \div in_flow ELSE 0

\* get_comp_flow without its bare except: a failing read raises into the except
\* clause of the case
get_comp_flow_reraises(at, next, name, stream_obj, comp_name) ==
    /\ pc = at
    /\ \/ /\ NoFault
          /\ metrics' = Append(metrics, <<name, EngineRead(stream_obj, comp_name)>>)
          /\ readFailed' = readFailed
          /\ exc' = exc
          /\ pc' = next
       \/ /\ Raise("get_comp_flow")
          /\ metrics' = metrics
          /\ readFailed' = readFailed \cup {name}

\* get_comp_flow, lines 310-331: total flow times mole fraction, 0.0 when any of
\* its engine calls raises
get_comp_flow(at, next, name, stream_obj, comp_name) ==
    /\ pc = at
    /\ \/ /\ NoFault
          /\ metrics' = Append(metrics, <<name, EngineRead(stream_obj, comp_name)>>)
          /\ readFailed' = readFailed
       \/ /\ Fault
          /\ metrics' = Append(metrics, <<name, 0>>)
          /\ readFailed' = readFailed \cup {name}
    /\ exc' = exc
    /\ pc' = next

\* line 339
read_in_flow ==
    /\ get_comp_flow("in_flow", "out_A", "in_flow", "feed", "Water")
    /\ UNCHANGED <<loopVars, sim, ctxCount, results, compounds, compTried, rxn, rs, rxn_sets, valid_index,
                   rxnInSet, pfr, wired, attempts, boundBy, cfgTried, cfgDone,
                   solved, success, errors, typeProps, simCase, handles, written, won>>

\* line 340
read_out_flow_A ==
    /\ get_comp_flow("out_A", "out_B", "out_flow_A", "prod", "Water")
    /\ UNCHANGED <<loopVars, sim, ctxCount, results, compounds, compTried, rxn, rs, rxn_sets, valid_index,
                   rxnInSet, pfr, wired, attempts, boundBy, cfgTried, cfgDone,
                   solved, success, errors, typeProps, simCase, handles, written, won>>

\* line 341
read_out_flow_B ==
    /\ get_comp_flow("out_B", "conv", "out_flow_B", "prod", "Ethanol")
    /\ UNCHANGED <<loopVars, sim, ctxCount, results, compounds, compTried, rxn, rs, rxn_sets, valid_index,
                   rxnInSet, pfr, wired, attempts, boundBy, cfgTried, cfgDone,
                   solved, success, errors, typeProps, simCase, handles, written, won>>

\* line 343
compute_conversion ==
    /\ pc = "conv"
    /\ metrics' = Append(metrics,
                         <<"conversion", conversion(Metric("in_flow"), Metric("out_flow_A"))>>)
    /\ pc' = "temp"
    /\ UNCHANGED <<loopVars, sim, ctxCount, results, compounds, compTried, rxn, rs, rxn_sets, valid_index,
                   rxnInSet, pfr, wired, attempts, boundBy, cfgTried, cfgDone,
                   solved, success, errors, readFailed, exc, caseFaults, faultyCases,
                   typeProps, simCase, handles, written, won>>

\* an unguarded property read of the try block: the value, or the exception
PlainRead(at, next, name, obj, prop) ==
    /\ pc = at
    /\ \/ /\ NoFault
          /\ metrics' = Append(metrics, <<name, EngineRead(obj, prop)>>)
          /\ readFailed' = readFailed
          /\ exc' = exc
          /\ pc' = next
       \/ /\ Raise("GetPropertyValue(" \o prop \o ")")
          /\ metrics' = metrics
          /\ readFailed' = readFailed \cup {name}

\* get_temp, lines 333-334, called at 345
get_temp ==
    /\ PlainRead("temp", "duty", "outlet_temp", "prod", "Temperature")
    /\ UNCHANGED <<loopVars, sim, ctxCount, results, compounds, compTried, rxn, rs, rxn_sets, valid_index,
                   rxnInSet, pfr, wired, attempts, boundBy, cfgTried, cfgDone,
                   solved, success, errors, typeProps, simCase, handles, written, won>>

\* get_duty, lines 336-337, called at 346
get_duty ==
    /\ PlainRead("duty", "log", "duty", "energy", "Energy Flow")
    /\ UNCHANGED <<loopVars, sim, ctxCount, results, compounds, compTried, rxn, rs, rxn_sets, valid_index,
                   rxnInSet, pfr, wired, attempts, boundBy, cfgTried, cfgDone,
                   solved, success, errors, typeProps, simCase, handles, written, won>>

\* lines 348-357: the dict of a case whose try block ran to its end
pfr_row ==
    << <<"Temperature_K", temperatures[i]>>,
       <<"Volume_m3", volumes[j]>>,
       <<"Conversion", Metric("conversion")>>,
       <<"OutletFlow_B_mol_s", Metric("out_flow_B")>>,
       <<"OutletTemperature_K", Metric("outlet_temp")>>,
       <<"HeatDuty_kW", Metric("duty")>>,
       <<"Success", success>>,
       <<"Error", IF ~success THEN StrErrors(errors) ELSE "">> >>

\* pfr_failure_row with the Success of the solve instead of False
pfr_failure_row_keeps_success ==
    << <<"Temperature_K", temperatures[i]>>,
       <<"Volume_m3", volumes[j]>>,
       <<"Success", success>>,
       <<"Error", StrExc(exc)>> >>

\* lines 363-368: the dict of a case whose try block raised
pfr_failure_row ==
    << <<"Temperature_K", temperatures[i]>>,
       <<"Volume_m3", volumes[j]>>,
       <<"Success", FALSE>>,
       <<"Error", StrExc(exc)>> >>

\* lines 416-424
dist_row ==
    << <<"RefluxRatio", reflux_ratios[i]>>,
       <<"Stages", stages_list[j]>>,
       <<"DistillatePurity", Metric("distillate_purity")>>,
       <<"CondenserDuty_kW", Metric("cond_duty")>>,
       <<"ReboilerDuty_kW", Metric("reb_duty")>>,
       <<"Success", success>>,
       <<"Error", IF ~success THEN StrErrors(errors) ELSE "">> >>

\* lines 430-435
dist_failure_row ==
    << <<"RefluxRatio", reflux_ratios[i]>>,
       <<"Stages", stages_list[j]>>,
       <<"Success", FALSE>>,
       <<"Error", StrExc(exc)>> >>

case_type == IF study = "PFR" THEN "PFR_Sweep" ELSE "Distillation_Sweep"

\* lines 348-359 and 416-426: record the case and go to the next iteration
log_case ==
    /\ pc = "log"
    /\ log_result(case_type, IF study = "PFR" THEN pfr_row ELSE dist_row)
    /\ next_iteration
    /\ handles' = leave_function
    /\ UNCHANGED <<sim, ctxCount, caseVars, caseFaults, faultyCases, typeProps,
                   simCase, written, won>>

\* except_handler that prints the failure and records nothing
except_handler_silent ==
    /\ pc = "except"
    /\ results' = results
    /\ next_iteration
    /\ handles' = leave_function
    /\ UNCHANGED <<sim, ctxCount, caseVars, caseFaults, faultyCases, typeProps,
                   simCase, written, won>>

\* except_handler that lets the exception go on to the caller: the script ends
\* with a traceback
except_handler_reraises ==
    /\ pc = "except"
    /\ pc' = "crashed"
    /\ UNCHANGED <<loopVars, sim, ctxCount, results, caseVars, caseFaults,
                   faultyCases, typeProps, simCase, handles, written, won>>

\* lines 361-368 and 428-435: the except clause of the loop body
except_handler ==
    /\ pc = "except"
    /\ log_result(case_type, IF study = "PFR" THEN pfr_failure_row ELSE dist_failure_row)
    /\ next_iteration
    /\ handles' = leave_function
    /\ UNCHANGED <<sim, ctxCount, caseVars, caseFaults, faultyCases, typeProps,
                   simCase, written, won>>

(***************************************************************************)
(* run_distillation_study: one iteration of its loop body, lines 383-435   *)
(***************************************************************************)
\* line 392: the shortcut column
add_column ==
    /\ pc = "column"
    /\ \/ /\ NoFault /\ pfr' = TRUE /\ exc' = exc /\ pc' = "dist_set"
       \/ /\ Raise("AddObject(Distillation)") /\ pfr' = pfr
    /\ handles' = Assign("unit", sim)
    /\ UNCHANGED <<loopVars, sim, ctxCount, results, compounds, compTried, rxn, rs, rxn_sets, valid_index,
                   rxnInSet, wired, attempts, boundBy, cfgTried, cfgDone,
                   solved, success, errors, metrics, readFailed, typeProps, simCase,
                   written, won>>

\* lines 396-400: the five SetPropertyValue calls, none of them guarded
set_column_property ==
    /\ pc = "dist_set"
    /\ LET prop == dist_props[Cardinality(cfgTried) + 1] IN
       /\ cfgTried' = cfgTried \cup {prop}
       /\ \/ /\ NoFault /\ cfgDone' = cfgDone \cup {prop}
             /\ exc' = exc
             /\ pc' = IF Cardinality(cfgTried) + 1 < Len(dist_props)
                      THEN "dist_set" ELSE "solve"
          \/ /\ Raise("SetPropertyValue(" \o prop \o ")") /\ cfgDone' = cfgDone
    /\ UNCHANGED <<loopVars, sim, ctxCount, results, compounds, compTried, rxn, rs, rxn_sets, valid_index,
                   rxnInSet, pfr, wired, attempts, boundBy,
                   solved, success, errors, metrics, readFailed, typeProps, simCase, handles, written, won>>

\* line 406
get_condenser_duty ==
    /\ PlainRead("cond", "reb", "cond_duty", "dist", "Condenser Duty")
    /\ UNCHANGED <<loopVars, sim, ctxCount, results, compounds, compTried, rxn, rs, rxn_sets, valid_index,
                   rxnInSet, pfr, wired, attempts, boundBy, cfgTried, cfgDone,
                   solved, success, errors, typeProps, simCase, handles, written, won>>

\* line 407
get_reboiler_duty ==
    /\ PlainRead("reb", "purity", "reb_duty", "dist", "Reboiler Duty")
    /\ UNCHANGED <<loopVars, sim, ctxCount, results, compounds, compTried, rxn, rs, rxn_sets, valid_index,
                   rxnInSet, pfr, wired, attempts, boundBy, cfgTried, cfgDone,
                   solved, success, errors, typeProps, simCase, handles, written, won>>

\* line 414: distillate_purity = 0.95, in percent
set_distillate_purity ==
    /\ pc = "purity"
    /\ metrics' = Append(metrics, <<"distillate_purity", 95>>)
    /\ pc' = "log"
    /\ UNCHANGED <<loopVars, sim, ctxCount, results, compounds, compTried, rxn, rs, rxn_sets, valid_index,
                   rxnInSet, pfr, wired, attempts, boundBy, cfgTried, cfgDone,
                   solved, success, errors, readFailed, exc, caseFaults, faultyCases,
                   typeProps, simCase, handles, written, won>>

(***************************************************************************)
(* The export, lines 454-459.  pandas is a library, modelled by what it     *)
(* does with a list of dicts: DataFrame takes the columns from the keys of  *)
(* the dicts in the order in which they are first met and leaves NaN where  *)
(* a dict has no such key; to_csv(index=False) writes the header line and   *)
(* one line per row, NaN as the empty field.                                *)
(***************************************************************************)
InSeq(seq, x) == \E n \in 1..Len(seq) : seq[n] = x

\* first_seen that takes the columns from the first dict alone
first_seen_first_row(rows, n) ==
    IF n = 0 THEN <<>> ELSE Keys(rows[1])

\* the keys of the first n dicts, each at the place of its first occurrence
\* (prev is a bound variable, so that it is computed once)
RECURSIVE first_seen(_, _)
first_seen(rows, n) ==
    IF n = 0 THEN <<>>
    ELSE CHOOSE cols \in
             { prev \o SelectSeq(Keys(rows[n]), LAMBDA k : ~InSeq(prev, k)) :
                   prev \in {first_seen(rows, n - 1)} } : TRUE

\* pd.DataFrame(mgr.results), line 455: a cell is <<value>>, or <<>> for NaN
DataFrame(rows) ==
    CHOOSE df \in
        { [columns |-> cols,
           data    |-> [r \in 1..Len(rows) |->
                          [c \in 1..Len(cols) |->
                              IF HasKey(rows[r], cols[c])
                              THEN <<Get(rows[r], cols[c])>> ELSE <<>>]]] :
              cols \in {first_seen(rows, Len(rows))} } : TRUE

\* the text of a value in the file
CsvField(col, v) ==
    IF col = "Success" THEN (IF v THEN "True" ELSE "False")
    ELSE IF col \in {"Error", "CaseType", "Timestamp"} THEN v
    ELSE ToString(v)

\* df.to_csv(output_path, index=False), line 458
to_csv(frame) ==
    CHOOSE file \in
        { [header |-> df.columns,
           lines  |-> [r \in 1..Len(df.data) |->
                         [c \in 1..Len(df.columns) |->
                             IF df.data[r][c] = <<>> THEN ""
                             ELSE CsvField(df.columns[c], df.data[r][c][1])]]] :
              df \in {frame} } : TRUE

\* lines 455-459: DataFrame(mgr.results).to_csv
export_results ==
    /\ pc = "export"
    /\ written' = Append(written, to_csv(DataFrame(results)))
    /\ pc' = "done"
    /\ UNCHANGED <<loopVars, sim, ctxCount, results, caseVars, caseFaults,
                   faultyCases, typeProps, simCase, handles, won>>

\* the positions of a case at which a call goes through manager.sim
sim_steps ==
    {"compounds", "feed", "prod", "energy", "rxn", "rxn_sets", "create_set",
     "add_rxn", "add_pfr", "column", "solve"}

\* the object locals the step at a position calls into or passes to the engine
uses(at) ==
    CASE at = "add_rxn"                   -> IF rs # "none" /\ rxn # "none"
                                             THEN {"rs"} ELSE {}
      [] at = "add_pfr"                   -> {"feed", "prod", "energy"}
      [] at = "get_type"                  -> {"unit"}
      [] at = "bind"                      -> IF rs = "none" THEN {} ELSE {"rs", "unit"}
      [] at \in {"cfg_vol", "cfg_mode"}   -> {"unit"}
      [] at = "in_flow"                   -> {"feed"}
      [] at \in {"out_A", "out_B", "temp"} -> {"prod"}
      [] at = "duty"                      -> {"energy"}
      [] at \in {"dist_set", "cond", "reb"} -> {"unit"}
      [] OTHER                            -> {}

Next ==
    \/ locate_dwsim
    \/ load_assemblies
    \/ main_start
    \/ create_simulation
    \/ setup_compounds
    \/ add_material_stream
    \/ add_product_stream
    \/ add_energy_stream
    \/ create_reaction
    \/ get_reaction_sets
    \/ create_reaction_set
    \/ add_reaction_to_set
    \/ add_pfr
    \/ get_type
    \/ bind_reaction_set
    \/ set_volume
    \/ set_operation_mode
    \/ run_simulation
    \/ import_interface
    \/ read_in_flow
    \/ read_out_flow_A
    \/ read_out_flow_B
    \/ compute_conversion
    \/ get_temp
    \/ get_duty
    \/ add_column
    \/ set_column_property
    \/ get_condenser_duty
    \/ get_reboiler_duty
    \/ set_distillate_purity
    \/ log_case
    \/ except_handler
    \/ export_results

Spec == Init /\ [][Next]_vars

(***************************************************************************)
(* The conversion of line 343 over the flows the engine can report: the     *)
(* first PFR case stands after its three get_comp_flow calls (line 341),    *)
(* every call before having succeeded, with any two flows of water.         *)
(***************************************************************************)
ConvInit ==
    /\ pc = "conv"
    /\ study = "PFR" /\ i = 1 /\ j = 1
    /\ sim = 1 /\ ctxCount = 1 /\ simCase = 1
    /\ results = <<>>
    /\ compounds = pfr_compounds /\ compTried = pfr_compounds
    /\ rxn = "rxn" /\ rs = "existing" /\ rxnInSet = TRUE
    /\ rxn_sets = <<"Default Set">> /\ valid_index = -1
    /\ pfr = TRUE /\ wired = TRUE
    /\ typeProps = {"Volume", "ReactorOperationMode", "ReactionSetID"}
    /\ attempts = <<"ReactionSetID">> /\ boundBy = "ReactionSetID"
    /\ won = {"ReactionSetID"}
    /\ cfgTried = {"Volume", "ReactorOperationMode"}
    /\ cfgDone = {"Volume", "ReactorOperationMode"}
    /\ solved = "returned" /\ success = TRUE /\ errors = <<>>
    /\ \E in_flow, out_flow_A \in 0..MaxFlow :
          metrics = << <<"in_flow", in_flow>>, <<"out_flow_A", out_flow_A>>,
                       <<"out_flow_B", EngineRead("prod", "Ethanol")>> >>
    /\ readFailed = {}
    /\ exc = NoExc
    /\ caseFaults = 0 /\ faultyCases = 0
    /\ handles = [feed |-> 1, prod |-> 1, energy |-> 1, unit |-> 1, rs |-> 1]
    /\ written = <<>>

\* lines 343-368: the rest of the case
ConvNext ==
    \/ compute_conversion
    \/ get_temp
    \/ get_duty
    \/ log_case
    \/ except_handler

ConvSpec == ConvInit /\ [][ConvNext]_vars

\* every call the script makes returns or raises, so the script takes its next
\* step whenever it has one
FairSpec == Spec /\ WF_vars(Next)

(***************************************************************************)
(* debug_pfr.py: one PFR flowsheet built, bound, solved and read, with no   *)
(* try block around the run as a whole.  The script can be started again;   *)
(* the reactor type is that of the installation and stays the same.         *)
(***************************************************************************)
\* the state of run_screening.py that debug_pfr.py has no counterpart of
screeningVars == <<loopVars, results, success, errors, metrics, readFailed,
                   simCase, handles, written, typeProps>>

\* an engine call outside every try block raises: the script ends with a traceback
DbgCrash(call) ==
    /\ Fault
    /\ exc' = EngineError(call)
    /\ pc' = "crashed"

\* an unguarded engine call that only has to return
DbgCall(at, next, call) ==
    /\ pc = at
    /\ \/ /\ NoFault /\ exc' = exc /\ pc' = next
       \/ DbgCrash(call)

\* the interpreter starts executing debug_pfr.py
DebugInit ==
    /\ pc = "dbg_locate"
    /\ study = "PFR" /\ i = 1 /\ j = 1
    /\ sim = 0 /\ ctxCount = 0 /\ simCase = 0
    /\ results = <<>>
    /\ compounds = <<>> /\ compTried = <<>>
    /\ rxn = "none" /\ rs = "unset" /\ rxnInSet = FALSE
    /\ rxn_sets = <<>> /\ valid_index = -1
    /\ pfr = FALSE /\ wired = FALSE
    /\ attempts = <<>> /\ boundBy = "pending"
    /\ cfgTried = {} /\ cfgDone = {}
    /\ solved = "no" /\ success = FALSE /\ errors = <<>>
    /\ metrics = <<>> /\ readFailed = {}
    /\ exc = NoExc
    /\ caseFaults = 0 /\ faultyCases = 0
    /\ typeProps \in TypeFamilies
    /\ handles = NoHandles
    /\ written = <<>>
    /\ won = {}

\* lines 13-27: look for DWSIM.Automation.dll, else exit(1)
dbg_locate ==
    /\ pc = "dbg_locate"
    /\ pc' \in {"dbg_load", "exit1"}
    /\ UNCHANGED <<screeningVars, sim, ctxCount, compounds, compTried, rxn, rs, rxn_sets, valid_index,
                   rxnInSet, pfr, wired, attempts, boundBy, cfgTried, cfgDone,
                   solved, exc, caseFaults, faultyCases, won>>

\* lines 32-44: clr.AddReference and the imports, exit(1) on any exception
dbg_load ==
    /\ pc = "dbg_load"
    /\ pc' \in {"dbg_main", "exit1"}
    /\ UNCHANGED <<screeningVars, sim, ctxCount, compounds, compTried, rxn, rs, rxn_sets, valid_index,
                   rxnInSet, pfr, wired, attempts, boundBy, cfgTried, cfgDone,
                   solved, exc, caseFaults, faultyCases, won>>

\* lines 50-52: Automation3() and CreateFlowsheet()
dbg_create ==
    /\ pc = "dbg_main"
    /\ \/ /\ NoFault /\ exc' = exc /\ pc' = "dbg_compounds"
          /\ ctxCount' = ctxCount + 1 /\ sim' = ctxCount + 1
       \/ /\ DbgCrash("CreateFlowsheet")
          /\ UNCHANGED <<sim, ctxCount>>
    /\ UNCHANGED <<screeningVars, compounds, compTried, rxn, rs, rxn_sets, valid_index,
                   rxnInSet, pfr, wired, attempts, boundBy, cfgTried, cfgDone,
                   solved, won>>

\* lines 56-62: both AddCompound calls in one try; on an exception run_debug
\* prints and returns
dbg_add_compound ==
    /\ pc = "dbg_compounds"
    /\ LET comp == pfr_compounds[Len(compTried) + 1] IN
       /\ compTried' = Append(compTried, comp)
       /\ \/ /\ NoFault
             /\ compounds' = Append(compounds, comp)
             /\ pc' = IF Len(compTried) + 1 < Len(pfr_compounds)
                      THEN "dbg_compounds" ELSE "dbg_feed"
          \/ /\ Fault
             /\ compounds' = compounds
             /\ pc' = "dbg_done"
    /\ UNCHANGED <<screeningVars, sim, ctxCount, rxn, rs, rxn_sets, valid_index,
                   rxnInSet, pfr, wired, attempts, boundBy, cfgTried, cfgDone,
                   solved, exc, won>>

\* lines 66-70: the feed stream and its four property writes
dbg_add_feed ==
    /\ DbgCall("dbg_feed", "dbg_prod", "AddObject(Feed)")
    /\ UNCHANGED <<screeningVars, sim, ctxCount, compounds, compTried, rxn, rs, rxn_sets, valid_index,
                   rxnInSet, pfr, wired, attempts, boundBy, cfgTried, cfgDone,
                   solved, won>>

\* lines 73-74: the product stream and the energy stream
dbg_add_product_energy ==
    /\ DbgCall("dbg_prod", "dbg_rxn", "AddObject(Product)")
    /\ UNCHANGED <<screeningVars, sim, ctxCount, compounds, compTried, rxn, rs, rxn_sets, valid_index,
                   rxnInSet, pfr, wired, attempts, boundBy, cfgTried, cfgDone,
                   solved, won>>

\* lines 77-109: CreateKineticReaction returns the reaction, returns null, or raises
dbg_create_reaction ==
    /\ pc = "dbg_rxn"
    /\ \/ /\ NoFault /\ rxn' = "rxn" /\ exc' = exc /\ pc' = "dbg_rxn_sets"
       \/ /\ Fault /\ rxn' = "none" /\ exc' = exc /\ pc' = "dbg_rxn_sets"
       \/ /\ DbgCrash("CreateKineticReaction") /\ rxn' = rxn
    /\ UNCHANGED <<screeningVars, sim, ctxCount, compounds, compTried, rs, rxn_sets, valid_index,
                   rxnInSet, pfr, wired, attempts, boundBy, cfgTried, cfgDone,
                   solved, won>>

\* the listings sim.ReactionSets can return: up to MaxSets sets, by display name
Listings == UNION {[1..n -> SetNames] : n \in 0..MaxSets}

\* lines 113-120: read sim.ReactionSets; take the first set when there is one
dbg_get_reaction_sets ==
    /\ pc = "dbg_rxn_sets"
    /\ \/ /\ NoFault
          /\ \E names \in Listings : Len(names) > 0 /\ rxn_sets' = names
          /\ rs' = "existing" /\ exc' = exc /\ pc' = "dbg_add_rxn"
       \/ /\ NoFault /\ rxn_sets' = <<>> /\ rs' = rs
          /\ exc' = exc /\ pc' = "dbg_create_set"
       \/ /\ DbgCrash("ReactionSets") /\ rxn_sets' = rxn_sets /\ rs' = rs
    /\ valid_index' = valid_index
    /\ UNCHANGED <<screeningVars, sim, ctxCount, compounds, compTried, rxn,
                   rxnInSet, pfr, wired, attempts, boundBy, cfgTried, cfgDone,
                   solved, won>>

\* lines 121-123: CreateReactionSet; the print after it reads rs.Name, which
\* raises when the call returned null
dbg_create_reaction_set ==
    /\ pc = "dbg_create_set"
    /\ \/ /\ NoFault /\ rxn_sets' = Append(rxn_sets, "DebugSet") /\ rs' = "created"
          /\ exc' = exc /\ pc' = "dbg_add_rxn"
       \/ /\ DbgCrash("CreateReactionSet") /\ rxn_sets' = rxn_sets /\ rs' = "none"
       \/ /\ DbgCrash("CreateReactionSet") /\ rxn_sets' = rxn_sets /\ rs' = rs
    /\ valid_index' = valid_index
    /\ UNCHANGED <<screeningVars, sim, ctxCount, compounds, compTried, rxn,
                   rxnInSet, pfr, wired, attempts, boundBy, cfgTried, cfgDone,
                   solved, won>>

\* lines 125-130: AddReactionToSet in a try; on an exception (the call raises, or
\* rxn is null and rxn.ID raises) run_debug prints and returns
dbg_add_reaction_to_set ==
    /\ pc = "dbg_add_rxn"
    /\ IF rxn # "none"
       THEN \/ /\ NoFault /\ rxnInSet' = TRUE /\ pc' = "dbg_add_pfr"
            \/ /\ Fault /\ rxnInSet' = rxnInSet /\ pc' = "dbg_done"
       ELSE /\ NoFault /\ rxnInSet' = rxnInSet /\ pc' = "dbg_done"
    /\ UNCHANGED <<screeningVars, sim, ctxCount, compounds, compTried, rxn, rs, rxn_sets, valid_index,
                   pfr, wired, attempts, boundBy, cfgTried, cfgDone,
                   solved, exc, won>>

\* lines 134-137: AddObject, then three ConnectObjects
dbg_add_pfr ==
    /\ pc = "dbg_add_pfr"
    /\ \/ /\ NoFault /\ pfr' = TRUE /\ wired' = TRUE /\ exc' = exc
          /\ pc' = "dbg_get_type"
       \/ /\ DbgCrash("AddObject(PFR-Debug)") /\ pfr' = FALSE /\ wired' = FALSE
       \/ /\ DbgCrash("ConnectObjects") /\ pfr' = TRUE /\ wired' = FALSE
    /\ UNCHANGED <<screeningVars, sim, ctxCount, compounds, compTried, rxn, rs, rxn_sets, valid_index,
                   rxnInSet, attempts, boundBy, cfgTried, cfgDone,
                   solved, won>>

\* line 141: pfr.GetType()
dbg_get_type ==
    /\ DbgCall("dbg_get_type", "dbg_cfg_vol", "GetType")
    /\ UNCHANGED <<screeningVars, sim, ctxCount, compounds, compTried, rxn, rs, rxn_sets, valid_index,
                   rxnInSet, pfr, wired, attempts, boundBy, cfgTried, cfgDone,
                   solved, won>>

\* one probe-and-write of lines 143-157; the except clause (156-157) ends the
\* whole block
DbgConfigWrite(at, next, prop) ==
    /\ pc = at
    /\ IF prop \in typeProps
       THEN /\ cfgTried' = cfgTried \cup {prop}
            /\ \/ /\ NoFault /\ cfgDone' = cfgDone \cup {prop} /\ pc' = next
               \/ /\ Fault /\ cfgDone' = cfgDone /\ pc' = "dbg_index"
       ELSE /\ NoFault /\ cfgTried' = cfgTried /\ cfgDone' = cfgDone /\ pc' = next

\* lines 145-148: Volume
dbg_set_volume ==
    /\ DbgConfigWrite("dbg_cfg_vol", "dbg_cfg_mode", "Volume")
    /\ UNCHANGED <<screeningVars, sim, ctxCount, compounds, compTried, rxn, rs, rxn_sets, valid_index,
                   rxnInSet, pfr, wired, attempts, boundBy, solved, exc, won>>

\* lines 151-154: ReactorOperationMode
dbg_set_operation_mode ==
    /\ DbgConfigWrite("dbg_cfg_mode", "dbg_index", "ReactorOperationMode")
    /\ UNCHANGED <<screeningVars, sim, ctxCount, compounds, compTried, rxn, rs, rxn_sets, valid_index,
                   rxnInSet, pfr, wired, attempts, boundBy, solved, exc, won>>

\* lines 161-168: idx counts the sets of the listing from 0 and valid_index is
\* overwritten at every set whose Name equals the target's, so the last such set
\* gives the result; -1 when there is none
find_index(names, target_set_name) ==
    LET hits == {idx \in 1..Len(names) : names[idx] = target_set_name} IN
    IF hits = {} THEN -1
    ELSE (CHOOSE idx \in hits : \A other \in hits : other <= idx) - 1

\* lines 160-168 and 203-204: look the set up by its name in sim.ReactionSets;
\* when no set of the listing has the name, nothing is bound.  rs is the first
\* set of the listing (116-117) or the set created into an empty one (121)
dbg_find_index ==
    /\ pc = "dbg_index"
    /\ \/ /\ NoFault /\ valid_index' = find_index(rxn_sets, rxn_sets[1])
          /\ boundBy' = boundBy /\ exc' = exc /\ pc' = "dbg_bind1"
       \/ /\ Fault /\ valid_index' = -1
          /\ boundBy' = "" /\ exc' = exc /\ pc' = "dbg_solve"
       \/ /\ DbgCrash("ReactionSets") /\ valid_index' = valid_index
          /\ boundBy' = boundBy
    /\ UNCHANGED <<screeningVars, sim, ctxCount, compounds, compTried, rxn, rs, rxn_sets,
                   rxnInSet, pfr, wired, attempts, cfgTried, cfgDone,
                   solved, won>>

\* Method 1 and Method 2, lines 172-190: probe a reflection property and write
\* the index through it, in a try of its own; assigned stays False when the
\* property is missing or anything raises
DbgBindProperty(at, next, name) ==
    /\ pc = at
    /\ attempts' = Append(attempts, name)
    /\ \/ /\ Fault                              \* GetProperty raises
          /\ boundBy' = boundBy /\ pc' = next
       \/ /\ name \notin typeProps /\ NoFault     \* GetProperty returns None
          /\ boundBy' = boundBy /\ pc' = next
       \/ /\ name \in typeProps /\ NoFault        \* SetValue returns
          /\ boundBy' = name /\ pc' = "dbg_solve"
       \/ /\ name \in typeProps /\ Fault          \* SetValue raises
          /\ boundBy' = boundBy /\ pc' = next
    /\ won' = IF boundBy' = name THEN won \cup {name} ELSE won

\* lines 172-179
dbg_bind_reaction_set_space ==
    /\ DbgBindProperty("dbg_bind1", "dbg_bind2", "Reaction Set")
    /\ UNCHANGED <<screeningVars, sim, ctxCount, compounds, compTried, rxn, rs, rxn_sets, valid_index,
                   rxnInSet, pfr, wired, cfgTried, cfgDone, solved, exc>>

\* lines 181-190
dbg_bind_reaction_set ==
    /\ DbgBindProperty("dbg_bind2", "dbg_bind3", "ReactionSet")
    /\ UNCHANGED <<screeningVars, sim, ctxCount, compounds, compTried, rxn, rs, rxn_sets, valid_index,
                   rxnInSet, pfr, wired, cfgTried, cfgDone, solved, exc>>

\* Method 3, lines 192-202: pfr.ReactionSet = valid_index through pythonnet,
\* which raises AttributeError when the object has no such member
dbg_bind_attribute ==
    /\ pc = "dbg_bind3"
    /\ attempts' = Append(attempts, "pfr.ReactionSet")
    /\ \/ /\ "ReactionSet" \in typeProps /\ NoFault
          /\ boundBy' = "pfr.ReactionSet"
       \/ /\ "ReactionSet" \in typeProps /\ Fault
          /\ boundBy' = ""
       \/ /\ "ReactionSet" \notin typeProps /\ NoFault
          /\ boundBy' = ""
    /\ won' = IF boundBy' = "" THEN won ELSE won \cup {boundBy'}
    /\ pc' = "dbg_solve"
    /\ UNCHANGED <<screeningVars, sim, ctxCount, compounds, compTried, rxn, rs, rxn_sets, valid_index,
                   rxnInSet, pfr, wired, cfgTried, cfgDone, solved, exc>>

\* line 207: CalculateFlowsheet2, its result not looked at
dbg_solve ==
    /\ pc = "dbg_solve"
    /\ \/ /\ NoFault /\ solved' = "returned" /\ exc' = exc /\ pc' = "dbg_results"
       \/ /\ DbgCrash("CalculateFlowsheet2") /\ solved' = "raised"
    /\ UNCHANGED <<screeningVars, sim, ctxCount, compounds, compTried, rxn, rs, rxn_sets, valid_index,
                   rxnInSet, pfr, wired, attempts, boundBy, cfgTried, cfgDone, won>>

\* lines 211-245: the reads and prints of the results, in one try
dbg_read_results ==
    /\ pc = "dbg_results"
    /\ \/ NoFault
       \/ Fault
    /\ pc' = "dbg_done"
    /\ UNCHANGED <<screeningVars, sim, ctxCount, compounds, compTried, rxn, rs, rxn_sets, valid_index,
                   rxnInSet, pfr, wired, attempts, boundBy, cfgTried, cfgDone,
                   solved, exc, won>>

\* the script is started again: a new process, the same installation
dbg_rerun ==
    /\ pc \in {"dbg_done", "crashed", "exit1"}
    /\ pc' = "dbg_locate"
    /\ ResetCase
    /\ sim' = 0 /\ ctxCount' = 0
    /\ compounds' = <<>>
    /\ exc' = NoExc
    /\ caseFaults' = 0
    /\ UNCHANGED <<loopVars, results, simCase, handles, written, typeProps,
                   faultyCases, won>>

DebugNext ==
    \/ dbg_locate
    \/ dbg_load
    \/ dbg_create
    \/ dbg_add_compound
    \/ dbg_add_feed
    \/ dbg_add_product_energy
    \/ dbg_create_reaction
    \/ dbg_get_reaction_sets
    \/ dbg_create_reaction_set
    \/ dbg_add_reaction_to_set
    \/ dbg_add_pfr
    \/ dbg_get_type
    \/ dbg_set_volume
    \/ dbg_set_operation_mode
    \/ dbg_find_index
    \/ dbg_bind_reaction_set_space
    \/ dbg_bind_reaction_set
    \/ dbg_bind_attribute
    \/ dbg_solve
    \/ dbg_read_results
    \/ dbg_rerun

DebugSpec == DebugInit /\ [][DebugNext]_vars

(***************************************************************************)
(* Vocabulary of the properties                                            *)
(***************************************************************************)
NumCases == Len(temperatures) * Len(volumes) + Len(reflux_ratios) * Len(stages_list)

\* the script stands between two cases, or after the last one: the per-case
\* variables describe the case whose row is the last of results
CaseOver == pc \in {"create", "export", "done"} /\ casesDone > 0

LastRow == results[Len(results)]

SolveFailed == solved = "raised" \/ (solved = "returned" /\ ~success)

\* the nested order of the two studies, written out
ExpectedCases ==
    << <<"PFR_Sweep", 300, 1>>, <<"PFR_Sweep", 300, 2>>, <<"PFR_Sweep", 300, 3>>,
       <<"PFR_Sweep", 325, 1>>, <<"PFR_Sweep", 325, 2>>, <<"PFR_Sweep", 325, 3>>,
       <<"PFR_Sweep", 350, 1>>, <<"PFR_Sweep", 350, 2>>, <<"PFR_Sweep", 350, 3>>,
       <<"Distillation_Sweep", 15, 10>>, <<"Distillation_Sweep", 15, 15>>,
       <<"Distillation_Sweep", 15, 20>>, <<"Distillation_Sweep", 20, 10>>,
       <<"Distillation_Sweep", 20, 15>>, <<"Distillation_Sweep", 20, 20>>,
       <<"Distillation_Sweep", 30, 10>>, <<"Distillation_Sweep", 30, 15>>,
       <<"Distillation_Sweep", 30, 20>> >>

\* a row carries the tag and the two parameter values of the k-th expected case
RowIsCase(row, k) ==
    LET e == ExpectedCases[k] IN
    /\ HasKey(row, "CaseType") /\ Get(row, "CaseType") = e[1]
    /\ IF e[1] = "PFR_Sweep"
       THEN /\ HasKey(row, "Temperature_K") /\ Get(row, "Temperature_K") = e[2]
            /\ HasKey(row, "Volume_m3") /\ Get(row, "Volume_m3") = e[3]
       ELSE /\ HasKey(row, "RefluxRatio") /\ Get(row, "RefluxRatio") = e[2]
            /\ HasKey(row, "Stages") /\ Get(row, "Stages") = e[3]

\* C1: whichever engine call of a case raises or fails, the case appends exactly
\* one row: after k cases have finished, results holds exactly k rows.
C1_OneRowPerCase == Len(results) = casesDone

\* a case ended in the except clause because ConnectObjects raised, and three
\* cases have finished
C1_Witness ==
    /\ CaseOver /\ casesDone = 3
    /\ exc.call = "ConnectObjects"
    /\ Len(results) = 3

\* C2: a case whose solve fails (a non-empty error list, or the call raises) is
\* recorded by exactly one row with Success false and a non-empty Error, and the
\* sweep goes on with the next case; three cases with one solve failure leave
\* three rows.
C2_SolveFailureRecorded ==
    SolveFailed =>
        /\ pc \notin {"crashed", "exit1"}
        /\ CaseOver =>
              /\ Len(results) = casesDone
              /\ Get(LastRow, "Success") = FALSE
              /\ Get(LastRow, "Error") # ""
              /\ casesDone < NumCases => pc = "create"

\* the third case's solve call raised, and the script is about to start the fourth
C2_Witness ==
    /\ pc = "create" /\ casesDone = 3
    /\ solved = "raised"
    /\ Len(results) = 3
    /\ Get(results[3], "Success") = FALSE

StrategyNo(name) ==
    CASE name = "Reaction Set"  -> 1
      [] name = "ReactionSet"   -> 2
      [] name = "ReactionSetID" -> 3
      [] OTHER                  -> 4

\* the strategies a reactor type supports through its properties
Applicable ==
    {StrategyNo(p) : p \in typeProps \cap {"Reaction Set", "ReactionSet", "ReactionSetID"}}

\* the metric columns of a complete row of the last case's study
MetricColumns ==
    IF Get(LastRow, "CaseType") = "PFR_Sweep"
    THEN {"Conversion", "OutletFlow_B_mol_s", "OutletTemperature_K", "HeatDuty_kW"}
    ELSE {"DistillatePurity", "CondenserDuty_kW", "ReboilerDuty_kW"}

\* the property writes the configuration step of the last case's study consists of
ConfigWrites ==
    IF Get(LastRow, "CaseType") = "PFR_Sweep"
    THEN typeProps \cap {"Volume", "ReactorOperationMode"}
    ELSE {dist_props[n] : n \in 1..Len(dist_props)}

\* C4: the binding is written by the lowest-numbered strategy the reactor
\* supports, in the order "Reaction Set", "ReactionSet", "ReactionSetID", direct
\* attribute; a reactor supporting only 2 and 3 is bound through 2.
C4_FirstApplicableBinds ==
    boundBy \notin {"pending", ""} =>
        \A n \in Applicable : StrategyNo(boundBy) <= n

\* C5: the strategies are attempted in the fixed order 1, 2, 3, 4: none is
\* attempted before one that precedes it in this order.
C5_AttemptsInPriorityOrder ==
    \A a, b \in 1..Len(attempts) :
        a < b => StrategyNo(attempts[a]) < StrategyNo(attempts[b])

\* C6: a PFR case in which no binding write took effect still calls solve, and
\* its row has a non-empty Error, also when the solve succeeds.  Stated for the
\* cases in which nothing but the binding fails.
C6_BindingFailureNoted ==
    (CaseOver /\ boundBy = "" /\ caseFaults <= 1) =>
        /\ solved # "no"
        /\ Get(LastRow, "Error") # ""

\* C7: a failed read of one metric leaves a placeholder for that metric only: the
\* row keeps the solve's Success and still has every metric column.  Stated for
\* the cases whose only failure is that one read.
C7_ReadFailureIsLocal ==
    (CaseOver /\ readFailed # {} /\ caseFaults = 1) =>
        /\ Get(LastRow, "Success") = success
        /\ \A k \in MetricColumns : HasKey(LastRow, k)

\* C8: after a failed solve, by a non-empty error list or by an exception, the
\* metric reads are still attempted and the row carries the metric columns.
\* Stated for the cases whose only failure is the solve.
C8_ExtractAfterFailedSolve ==
    (CaseOver /\ SolveFailed /\ caseFaults = 1) =>
        /\ (metrics # <<>> \/ readFailed # {})
        /\ \A k \in MetricColumns : HasKey(LastRow, k)

\* C9: a failed property write of the configuration step is skipped: the other
\* writes of the case are still attempted, the case reaches solve, and that
\* failure alone does not make Success false.  Stated for the cases whose only
\* failure is that one write.
C9_ConfigFailureSkipped ==
    (CaseOver /\ cfgTried \ cfgDone # {} /\ caseFaults = 1) =>
        /\ cfgTried = ConfigWrites
        /\ solved # "no"
        /\ Get(LastRow, "Success") = TRUE

\* C10: a failing AddCompound is swallowed: every compound of the study is still
\* attempted in list order, no exception of AddCompound reaches the caller, and
\* the case goes on to the topology step.
C10_CompoundFailuresSwallowed ==
    /\ exc.call # "AddCompound"
    /\ pc = "compounds" =>
          /\ Len(compTried) < Len(study_compounds)
          /\ compTried = SubSeq(study_compounds, 1, Len(compTried))
    /\ pc \in {"feed", "prod", "column"} => compTried = study_compounds
    /\ (pc = "except" /\ exc.call # "CreateFlowsheet") => compTried = study_compounds

\* both AddCompound calls of a case failed and the case stands at the topology step
C10_Witness ==
    /\ pc = "feed"
    /\ compTried = study_compounds
    /\ compounds = <<>>

\* C11: the Success of a row is true exactly when the solve call of its case
\* returned with no errors and no exception reached the except clause of the
\* case; and a row with Success true has the empty Error.
C11_SuccessMeansCleanSolve ==
    /\ CaseOver =>
          (Get(LastRow, "Success") <=>
              (solved = "returned" /\ errors = <<>> /\ exc = NoExc))
    /\ \A k \in 1..Len(results) :
          Get(results[k], "Success") => Get(results[k], "Error") = ""

\* the solve of the last case returned no errors, a later read raised, and the
\* row of the case has Success false
C11_Witness ==
    /\ CaseOver
    /\ solved = "returned" /\ errors = <<>> /\ success
    /\ exc # NoExc
    /\ Get(LastRow, "Success") = FALSE

\* C12: every object a step of a case calls into belongs to the flowsheet that
\* this same case created, and that flowsheet is a new one: no context, unit
\* handle or reaction set of an earlier case is configured, solved or read.
C12_CaseIsolation ==
    /\ (pc \in sim_steps \/ uses(pc) # {}) =>
          /\ sim = ctxCount
          /\ simCase = casesDone + 1
    /\ \A h \in uses(pc) : handles[h] = sim

\* the third case reads its product stream, in its own flowsheet, after the first
\* case had ended in the except clause
C12_Witness ==
    /\ pc = "temp" /\ casesDone = 2
    /\ faultyCases = 1 /\ caseFaults = 0
    /\ Get(results[1], "Success") = FALSE
    /\ ~HasKey(results[1], "Conversion")
    /\ handles.prod = sim /\ sim = 3

\* C13: once the sweep has started, a failure raised by an engine call of a case
\* does not end the run: it becomes the Error of the row of that case, the script
\* goes on to the export, and the export is written once, after all 18 rows.
\* The script ends with a traceback only before the first case.
C13_SweepRunsToExport ==
    /\ (pc = "create") ~> (pc = "done")
    /\ [](pc = "crashed" => (ctxCount = 0 /\ results = <<>>))
    /\ []((CaseOver /\ exc # NoExc) =>
            (Get(LastRow, "Success") = FALSE /\ Get(LastRow, "Error") = StrExc(exc)))
    /\ [](Len(written) <= 1)
    /\ [](written # <<>> =>
            (Len(results) = NumCases /\ Len(written[1].lines) = NumCases))
    /\ [](pc = "done" => Len(written) = 1)

\* the run is over, the export is written, and in one case an engine call raised
C13_Witness ==
    /\ pc = "done"
    /\ Len(written) = 1
    /\ faultyCases = 1
    /\ \E k \in 1..Len(results) : Get(results[k], "Error") = "engine error"

\* C14: when the engine is not found or its assemblies do not load, the script
\* ends by sys.exit(1): it takes no further step, and no flowsheet has been
\* created, no row recorded and no file written.
C14_NoEngineNoCases ==
    /\ [](pc = "exit1" =>
            (sim = 0 /\ ctxCount = 0 /\ results = <<>> /\ written = <<>>))
    /\ [][pc # "exit1"]_vars

\* the script has ended by sys.exit(1)
C14_Witness ==
    /\ pc = "exit1"
    /\ ctxCount = 0 /\ results = <<>> /\ written = <<>>

\* the first row of the list that has a key
FirstRowWith(k) ==
    CHOOSE r \in 1..Len(results) :
        HasKey(results[r], k) /\ \A q \in 1..(r - 1) : ~HasKey(results[q], k)

\* the position of a key in a row
KeyPos(row, k) == CHOOSE n \in 1..Len(row) : row[n][1] = k

\* C15: the header of the exported table holds every key of every recorded row
\* once, in the order in which the keys are first seen; the table has one line
\* per recorded row, in recording order; and the cell of a key the row does not
\* have is blank, no column and no row being dropped.
C15_ExportIsUnionOfKeys ==
    \A w \in 1..Len(written) :
        LET header == written[w].header
            lines  == written[w].lines
        IN  /\ \A a, b \in 1..Len(header) : a # b => header[a] # header[b]
            /\ \A r \in 1..Len(results) : \A n \in 1..Len(results[r]) :
                   InSeq(header, results[r][n][1])
            /\ \A a \in 1..Len(header) :
                   \E r \in 1..Len(results) : HasKey(results[r], header[a])
            /\ \A a, b \in 1..Len(header) :
                   a < b =>
                     \/ FirstRowWith(header[a]) < FirstRowWith(header[b])
                     \/ /\ FirstRowWith(header[a]) = FirstRowWith(header[b])
                        /\ KeyPos(results[FirstRowWith(header[a])], header[a])
                             < KeyPos(results[FirstRowWith(header[a])], header[b])
            /\ Len(lines) = Len(results)
            /\ \A r \in 1..Len(lines) :
                   /\ Len(lines[r]) = Len(header)
                   /\ \A c \in 1..Len(header) :
                          lines[r][c] =
                            IF HasKey(results[r], header[c])
                            THEN CsvField(header[c], Get(results[r], header[c]))
                            ELSE ""

\* the file is written; the first row is a failure row without metric columns,
\* so the metric columns come after Timestamp in the header, and the cells of the
\* distillation columns are blank in the line of a PFR row
C15_Witness ==
    /\ pc = "done" /\ Len(written) = 1
    /\ ~HasKey(results[1], "Conversion")
    /\ SubSeq(written[1].header, 1, 7)
         = <<"Temperature_K", "Volume_m3", "Success", "Error", "CaseType",
             "Timestamp", "Conversion">>
    /\ Len(written[1].header) = 15
    /\ written[1].lines[2][15] = ""
    /\ written[1].lines[2][1] = "300"
    /\ written[1].lines[1][7] = ""

\* C16: with a positive inlet flow the Conversion is (in - out) / in, here in
\* whole percent: 100 and 40 give 60; with the inlet flow 0 it is 0; the
\* computation never raises, so the step after it is the temperature read; and
\* the row of the case records the computed value.
C16_ConversionFormula ==
    /\ [](HasKey(metrics, "conversion") =>
            LET in_flow    == Metric("in_flow")
                out_flow_A == Metric("out_flow_A")
                c          == Metric("conversion")
            IN  /\ in_flow > 0 =>
                      /\ c * in_flow <= (in_flow - out_flow_A) * 100
                      /\ (in_flow - out_flow_A) * 100 < (c + 1) * in_flow
                /\ in_flow = 0 => c = 0
                /\ (in_flow = 100 /\ out_flow_A = 40) => c = 60
                /\ (CaseOver /\ exc = NoExc) => Get(LastRow, "Conversion") = c)
    /\ [][pc = "conv" => pc' = "temp"]_vars

\* the case with the inlet flow 100 and the outlet flow 40 is recorded with 60
C16_Witness ==
    /\ CaseOver /\ exc = NoExc
    /\ Metric("in_flow") = 100 /\ Metric("out_flow_A") = 40
    /\ Get(LastRow, "Conversion") = 60

\* the case with the inlet flow 0 is recorded with the Conversion 0
C16_WitnessZero ==
    /\ CaseOver /\ exc = NoExc
    /\ Metric("in_flow") = 0 /\ Metric("out_flow_A") = 40
    /\ Get(LastRow, "Conversion") = 0

\* C17: the list of results only grows at its end: a log_result call (the normal
\* end of a case, or its except clause) adds one row after the rows already
\* there, and no step removes, moves or changes a row of the list.
C17_ResultsAppendOnly ==
    [][/\ Len(results') >= Len(results)
       /\ SubSeq(results', 1, Len(results)) = results
       /\ IF pc \in {"log", "except"}
          THEN Len(results') = Len(results) + 1
          ELSE results' = results]_vars

\* three rows are in the list, the first a failure row recorded by the except
\* clause, the third a complete row
C17_Witness ==
    /\ pc = "create" /\ Len(results) = 3
    /\ ~HasKey(results[1], "Conversion")
    /\ HasKey(results[3], "Conversion")

\* C18: on reactors with the same set of property names the same strategy
\* performs the binding in every run of the binding step, whichever calls raise:
\* over the runs on one reactor type no two different strategies ever bind.
C18_SameStrategyWins == Cardinality(won) <= 1

\* C19: in the binding step a strategy whose probe or write fails is followed by
\* the next strategy of the chain, also when the write raises after a successful
\* probe; and after a successful write no further strategy is attempted.
C19_FailureMovesToNextStrategy ==
    (boundBy # "pending" /\ rs \notin {"unset", "none"}) =>
        /\ boundBy = "" =>
              attempts = <<"ReactionSetID", "Reaction Set">>
        /\ boundBy # "" =>
              /\ attempts[Len(attempts)] = boundBy
              /\ \A n \in 1..(Len(attempts) - 1) : attempts[n] # boundBy

\* the column in which a complete row records a metric local
ColumnOf(name) ==
    CASE name = "conversion"        -> "Conversion"
      [] name = "out_flow_B"        -> "OutletFlow_B_mol_s"
      [] name = "outlet_temp"       -> "OutletTemperature_K"
      [] name = "duty"              -> "HeatDuty_kW"
      [] name = "distillate_purity" -> "DistillatePurity"
      [] name = "cond_duty"         -> "CondenserDuty_kW"
      [] name = "reb_duty"          -> "ReboilerDuty_kW"
      [] OTHER                      -> ""

\* C20: a case that fails after some of its metrics were computed is recorded
\* with those metrics: every metric computed before the failure is in the row
\* with its value.  Stated for the cases with that one failure.
C20_FailureKeepsMetrics ==
    (CaseOver /\ exc # NoExc /\ caseFaults = 1) =>
        \A n \in 1..Len(metrics) :
            ColumnOf(metrics[n][1]) # "" =>
                /\ HasKey(LastRow, ColumnOf(metrics[n][1]))
                /\ Get(LastRow, ColumnOf(metrics[n][1])) = metrics[n][2]

\* the step of the case state machine a position of a PFR case belongs to:
\* 1 INIT, 2 COMPOUNDS, 3 TOPOLOGY, 4 REACTION_DEFINE, 5 REACTION_BIND,
\* 6 UNIT_CONFIGURE, 7 SOLVE, 8 EXTRACT, 9 RECORD
Phase(at) ==
    CASE at = "create"                                        -> 1
      [] at = "compounds"                                     -> 2
      [] at \in {"feed", "prod", "energy", "add_pfr"}          -> 3
      [] at \in {"rxn", "rxn_sets", "create_set", "add_rxn"}   -> 4
      [] at \in {"get_type", "bind"}                          -> 5
      [] at \in {"cfg_vol", "cfg_mode"}                       -> 6
      [] at = "solve"                                         -> 7
      [] at \in {"import", "in_flow", "out_A", "out_B",
                 "conv", "temp", "duty"}                      -> 8
      [] at \in {"log", "except"}                             -> 9
      [] OTHER                                                -> 0

\* C21: within a PFR case the steps follow one another in the order INIT,
\* COMPOUNDS, TOPOLOGY, REACTION_DEFINE, REACTION_BIND, UNIT_CONFIGURE, SOLVE,
\* EXTRACT, RECORD and none is gone back to: the reactor, a unit of the
\* topology, is created and connected before the reaction is defined.
C21_StepsInOrder ==
    [][(study = "PFR" /\ Phase(pc) \in 1..8 /\ Phase(pc') # 0)
          => Phase(pc') >= Phase(pc)]_vars

\* C22: a case of either study that calls solve has its units wired beforehand:
\* feed into the reactor or column, reactor or column into a product stream, and
\* for the reactor the energy stream.
C22_WiredBeforeSolve ==
    pc = "solve" => (pfr /\ wired)

\* C23: a PFR case that reaches the binding step has chosen exactly one reaction
\* set (the first one listed, or a newly created one when none is listed), has
\* added the defined reaction to that set, and leaves the binding step with that
\* set bound to the reactor.
C23_OneSetChosenAddedAndBound ==
    /\ (study = "PFR" /\ pc = "bind") =>
           (rs \in {"existing", "created"} /\ rxn = "rxn" /\ rxnInSet)
    /\ (study = "PFR" /\ pc = "cfg_vol") =>
           (rs \in {"existing", "created"} /\ boundBy \in {"ReactionSetID", "Reaction Set"})

\* C24: in debug_pfr's index-based binding, whatever sets the engine lists
\* (several of one display name included), a binding write that succeeds has
\* written the index of the set the reaction was added to, which is the first
\* set of the listing: index 0.
C24_IndexDesignatesChosenSet ==
    (pc \in {"dbg_solve", "dbg_results", "dbg_done"}
        /\ boundBy \in {"Reaction Set", "ReactionSet", "pfr.ReactionSet"})
    => valid_index = 0

\* C25: when create_simulation raises, manager.sim keeps the flowsheet of the
\* previous case, and the failing case makes no engine call on it: it goes
\* straight to the except clause, which records the failure row; every case that
\* does call into a flowsheet has replaced manager.sim by a new one first.
C25_NoCallOnStaleContext ==
    /\ exc.call = "CreateFlowsheet" =>
          /\ pc \in {"except", "create", "export", "done"}
          /\ sim = ctxCount /\ simCase < casesDone + 1
          /\ compTried = <<>> /\ rxn = "none" /\ rs = "unset" /\ ~rxnInSet
          /\ ~pfr /\ ~wired /\ attempts = <<>> /\ boundBy = "pending"
          /\ cfgTried = {} /\ solved = "no"
          /\ metrics = <<>> /\ readFailed = {}
          /\ pc # "except" =>
                /\ Len(results) = casesDone
                /\ Get(LastRow, "Success") = FALSE
                /\ Get(LastRow, "Error") = StrExc(EngineError("CreateFlowsheet"))
                /\ \A c \in MetricColumns : ~HasKey(LastRow, c)
    /\ (pc \in sim_steps \/ uses(pc) # {}) =>
          (sim = ctxCount /\ sim # 0 /\ simCase = casesDone + 1)

\* create_simulation has raised in the second case while manager.sim held the
\* flowsheet of the first case: the failure row is recorded, no call was made,
\* and manager.sim is still that flowsheet when the third case begins
C25_Witness ==
    /\ pc = "create" /\ exc.call = "CreateFlowsheet"
    /\ casesDone = 2 /\ Len(results) = 2
    /\ sim = 1 /\ simCase = 1 /\ ctxCount = 1
    /\ Get(results[1], "Success") = TRUE
    /\ Get(LastRow, "Success") = FALSE
    /\ compTried = <<>> /\ solved = "no"

\* the third case then solves in a flowsheet of its own, the second of the run
C25_WitnessNextCase ==
    /\ pc = "solve" /\ casesDone = 2
    /\ ctxCount = 2 /\ sim = 2 /\ simCase = 3
    /\ Get(results[1], "Success") = TRUE
    /\ Get(results[2], "Success") = FALSE
    /\ ~HasKey(results[2], "Conversion")

\* the component-flow reads of the running case that failed
FailedFlowReads == readFailed \cap {"in_flow", "out_flow_A", "out_flow_B"}

\* C26: in a PFR case a failed read of a component flow gives flow 0 and the case
\* goes on to compute Conversion from it: a failed inlet read records Conversion 0,
\* a failed outlet read with a positive inlet flow records full conversion (100
\* percent), and the failed read neither raises nor changes Success, which stays
\* what the solve call returned.
C26_FailedReadCountsAsZeroFlow ==
    /\ \A name \in FailedFlowReads : HasKey(metrics, name) /\ Metric(name) = 0
    /\ (pc = "except" /\ FailedFlowReads # {}) => HasKey(metrics, "conversion")
    /\ (CaseOver /\ FailedFlowReads # {} /\ exc = NoExc) =>
          /\ HasKey(LastRow, "Conversion")
          /\ "in_flow" \in readFailed => Get(LastRow, "Conversion") = 0
          /\ ("out_flow_A" \in readFailed /\ "in_flow" \notin readFailed) =>
                (Metric("in_flow") > 0 /\ Get(LastRow, "Conversion") = 100)
          /\ "out_flow_B" \in readFailed => Get(LastRow, "OutletFlow_B_mol_s") = 0
          /\ Get(LastRow, "Success") = success
          /\ success = ~SolveFailed

\* the outlet read of A failed after the inlet read gave a positive flow: the row
\* records full conversion and Success
C26_Witness ==
    /\ CaseOver /\ exc = NoExc
    /\ readFailed = {"out_flow_A"}
    /\ Metric("in_flow") > 0
    /\ Get(LastRow, "Conversion") = 100
    /\ Get(LastRow, "Success") = TRUE

\* the inlet read failed: the row records Conversion 0 and Success
C26_WitnessInlet ==
    /\ CaseOver /\ exc = NoExc
    /\ "in_flow" \in readFailed
    /\ Get(LastRow, "Conversion") = 0
    /\ Get(LastRow, "Success") = TRUE

====
